---- MODULE Spec2Model ----
(***************************************************************************)
(* Boot configuration resolution of init (src/init/util.cpp): the property *)
(* reference expander expand_props, the kernel command line tokenizer      *)
(* import_kernel_cmdline, and the Android device-tree directory resolver   *)
(* get_android_dt_dir with its ACPI synthesis fallback.                    *)
(*                                                                         *)
(* A C++ string is a sequence of one-character strings.                    *)
(***************************************************************************)
EXTENDS Naturals, Sequences, FiniteSets

(***************************************************************************)
(* Bounds of the model.                                                    *)
(***************************************************************************)
\* longest template, counted in the pieces of TemplatePieces
MaxPieces == 5
\* calls of expand_props a caller makes on one output buffer
MaxExpandCalls == 2
\* longest command line text the tokenizer is run on, in characters
MaxCmdLen == 6
\* threads that call get_android_dt_dir
NThreads == 2
\* calls of get_android_dt_dir each thread makes
MaxDtCalls == 2

(***************************************************************************)
(* String helpers: the C and C++ library calls the code makes.             *)
(***************************************************************************)
\* strchr / std::string::find(char): first index >= from holding ch, 0 if none
FindChar(s, ch, from) ==
    LET hits == {i \in from..Len(s) : s[i] = ch}
    IN IF hits = {} THEN 0 ELSE CHOOSE i \in hits : \A j \in hits : i <= j

\* std::string::find(const char*): first index where pat occurs in s, 0 if none
FindStr(s, pat) ==
    LET hits == {i \in 1..(Len(s) + 1) :
                    /\ i + Len(pat) - 1 <= Len(s)
                    /\ SubSeq(s, i, i + Len(pat) - 1) = pat}
    IN IF hits = {} THEN 0 ELSE CHOOSE i \in hits : \A j \in hits : i <= j

\* the characters from index from to the end of s
Tail_(s, from) == SubSeq(s, from, Len(s))

\* std::replace(s.begin(), s.end(), old, new)
Replace(s, old, new) == [i \in 1..Len(s) |-> IF s[i] = old THEN new ELSE s[i]]

RECURSIVE Concat(_)
Concat(ss) == IF ss = <<>> THEN <<>> ELSE Head(ss) \o Concat(Tail(ss))

\* isspace() in the C locale
IsSpace(ch) == ch \in {" ", "\t", "\n", "\r", "\f"}

\* android::base::Trim: s without its leading and trailing whitespace
Trim(s) ==
    LET keep == {i \in 1..Len(s) : ~IsSpace(s[i])}
    IN IF keep = {} THEN <<>>
       ELSE SubSeq(s, CHOOSE i \in keep : \A j \in keep : i <= j,
                      CHOOSE i \in keep : \A j \in keep : j <= i)

\* android::base::Split with one delimiter character: the pieces between the
\* delimiters, empty pieces kept; the empty string gives one empty piece
RECURSIVE SplitFrom(_, _, _)
SplitFrom(s, delim, base) ==
    LET found == FindChar(s, delim, base)
    IN IF found = 0 THEN <<Tail_(s, base)>>
       ELSE <<SubSeq(s, base, found - 1)>> \o SplitFrom(s, delim, found + 1)

Split(s, delim) == SplitFrom(s, delim, 1)

\* android::base::StartsWith
StartsWith(s, prefix) == Len(s) >= Len(prefix) /\ SubSeq(s, 1, Len(prefix)) = prefix

\* android::base::Dirname (dirname(3)): the path without its last component
Dirname(path) ==
    LET solid  == {i \in 1..Len(path) : path[i] # "/"}
        last   == IF solid = {} THEN 0 ELSE CHOOSE i \in solid : \A j \in solid : j <= i
        slash  == {i \in 1..last : path[i] = "/"}
        cut    == IF slash = {} THEN 0 ELSE CHOOSE i \in slash : \A j \in slash : j <= i
        parent == {i \in 1..cut : path[i] # "/"}
        stop   == IF parent = {} THEN 0 ELSE CHOOSE i \in parent : \A j \in parent : j <= i
    IN IF path = <<>> THEN <<".">>
       ELSE IF last = 0 THEN <<"/">>
       ELSE IF cut = 0 THEN <<".">>
       ELSE IF stop = 0 THEN <<"/">>
       ELSE SubSeq(path, 1, stop)

(***************************************************************************)
(* String constants of the code.                                           *)
(***************************************************************************)
\* line 56: "/proc/device-tree/firmware/android/"
kDefaultAndroidDtDir ==
    <<"/", "p", "r", "o", "c", "/", "d", "e", "v", "i", "c", "e", "-", "t", "r", "e",
      "e", "/", "f", "i", "r", "m", "w", "a", "r", "e", "/", "a", "n", "d", "r", "o",
      "i", "d", "/">>

\* line 443, the path of the alternative device tree: "/dev/device-tree/firmware/android/"
kAlternativeDtDir ==
    <<"/", "d", "e", "v", "/", "d", "e", "v", "i", "c", "e", "-", "t", "r", "e", "e",
      "/", "f", "i", "r", "m", "w", "a", "r", "e", "/", "a", "n", "d", "r", "o", "i",
      "d", "/">>

\* line 438: "androidboot.android_dt_dir"
kDtDirKey ==
    <<"a", "n", "d", "r", "o", "i", "d", "b", "o", "o", "t", ".", "a", "n", "d", "r",
      "o", "i", "d", "_", "d", "t", "_", "d", "i", "r">>

\* line 402: "android.acpi.cfg.root"
kAcpiRootKey ==
    <<"a", "n", "d", "r", "o", "i", "d", ".", "a", "c", "p", "i", ".", "c", "f", "g",
      ".", "r", "o", "o", "t">>

\* line 406: "/sys/devices/system/container/ACPI0004:00/firmware_node"
kAcpiDefaultRoot ==
    <<"/", "s", "y", "s", "/", "d", "e", "v", "i", "c", "e", "s", "/", "s", "y", "s",
      "t", "e", "m", "/", "c", "o", "n", "t", "a", "i", "n", "e", "r", "/", "A", "C",
      "P", "I", "0", "0", "0", "4", ":", "0", "0", "/", "f", "i", "r", "m", "w", "a",
      "r", "e", "_", "n", "o", "d", "e">>

\* line 387: "android.fw."
kFwPrefix == <<"a", "n", "d", "r", "o", "i", "d", ".", "f", "w", ".">>

\* line 388: key.c_str() + 11
kFwPrefixSkip == 11

\* line 414: "CFG0"
kCfg0 == <<"C", "F", "G", "0">>

\* line 413: "/path"
kPathAttr == <<"/", "p", "a", "t", "h">>

\* line 417: "/description"
kDescriptionAttr == <<"/", "d", "e", "s", "c", "r", "i", "p", "t", "i", "o", "n">>

\* lines 242 and 398: "/proc/cmdline"
kProcCmdline == <<"/", "p", "r", "o", "c", "/", "c", "m", "d", "l", "i", "n", "e">>

\* the value of the static kAndroidDtDir before its initialization
Unset == <<"<unset>">>

(***************************************************************************)
(* State                                                                   *)
(***************************************************************************)
VARIABLES
    \* expand_props
    src,        \* the template (const std::string& src)
    props,      \* the property store: name -> value
    dst,        \* the caller's output string (*dst)
    src_ptr,    \* index into src of the loop's position (const char* src_ptr)
    epc,        \* "loop" while expand_props runs, "done" once it returned
    ret,        \* the value expand_props returned
    lookups,    \* names GetProperty was called with during the call
    elog,       \* the LOG(ERROR) lines of the call, by kind
    refs,       \* the references parsed during the call
    dst_in,     \* what dst held when the call began
    ncall,      \* which call on this buffer is running
    prev,       \* outcome of the previous call on this buffer
    \* import_kernel_cmdline
    cmdline,    \* the text of /proc/cmdline
    kpc,        \* "start" before import_kernel_cmdline ran, "done" after
    fn_calls,   \* the calls of fn it made: <<key, value>>, in order
    \* the file system
    dirs,       \* the paths that are directories when init starts
    sysfs,      \* the readable sysfs attribute files: path -> content
    made_dirs,  \* the directories mkdir_recursive made
    files,      \* the files WriteFile wrote: path -> content
    \* get_android_dt_dir
    guard,      \* the static's guard: "uninit", "running" or "done"
    kAndroidDtDir,   \* the function-local static
    tpc,        \* where each thread stands
    android_dt_dir,  \* init_android_dt_dir's local, per running thread
    budget,     \* the calls of get_android_dt_dir each thread is going to make
    tcalls,     \* the calls of get_android_dt_dir each thread has finished
    returned,   \* what the calls returned: [thread, value, how]
    ninit,      \* the runs of init_android_dt_dir started
    reads,      \* the files read with ReadFileToString, in order
    acpi_calls, \* the calls of import_acpi_cmdline: [rootdir, acpi_cfg_path, ret]
    synth_calls,\* the calls of create_dt_file_by_cmdline: [key, value, rootdir]
    writes      \* the calls of WriteFile: [path, content, key, value, rootdir]

expVars == <<src, props, dst, src_ptr, epc, ret, lookups, elog, refs, dst_in, ncall, prev>>
tokVars == <<kpc, fn_calls>>
fsVars  == <<dirs, sysfs, made_dirs, files>>
dtVars  == <<guard, kAndroidDtDir, tpc, android_dt_dir, budget, tcalls, returned, ninit,
             reads, acpi_calls, synth_calls, writes>>
vars    == <<expVars, cmdline, tokVars, fsVars, dtVars>>

(***************************************************************************)
(* expand_props                                                            *)
(***************************************************************************)
\* android::base::GetProperty(name, ""): the value, empty when unset
GetProperty(store, name) == IF name \in DOMAIN store THEN store[name] ELSE <<>>

\* lines 341-345: split the text between the braces at the first ":-"
SplitDefault(body) ==
    LET def == FindStr(body, <<":", "-">>)
    IN IF def # 0
       THEN [prop_name |-> SubSeq(body, 1, def - 1),
             def_val   |-> Tail_(body, def + 2),
             has_def   |-> TRUE]
       ELSE [prop_name |-> body, def_val |-> <<>>, has_def |-> FALSE]

\* ParseReference resuming at the closing brace instead of behind it
ParseReference_ResumeAtBrace(s, c) ==
    IF s[c] = "{"
    THEN LET end == FindChar(s, "}", c + 1)
         IN IF end = 0
            THEN [braced |-> TRUE, prop_name |-> <<>>, def_val |-> <<>>,
                  has_def |-> FALSE, next |-> 0]
            ELSE LET d == SplitDefault(SubSeq(s, c + 1, end - 1))
                 IN [braced |-> TRUE, prop_name |-> d.prop_name, def_val |-> d.def_val,
                     has_def |-> d.has_def, next |-> end]
    ELSE [braced |-> FALSE, prop_name |-> Tail_(s, c), def_val |-> <<>>,
          has_def |-> FALSE, next |-> Len(s) + 1]

\* lines 331-350: the reference that starts at index c (the character after the
\* '$'); next is where scanning resumes, 0 when the closing brace is missing
ParseReference(s, c) ==
    IF s[c] = "{"
    THEN LET end == FindChar(s, "}", c + 1)
         IN IF end = 0
            THEN [braced |-> TRUE, prop_name |-> <<>>, def_val |-> <<>>,
                  has_def |-> FALSE, next |-> 0]
            ELSE LET d == SplitDefault(SubSeq(s, c + 1, end - 1))
                 IN [braced |-> TRUE, prop_name |-> d.prop_name, def_val |-> d.def_val,
                     has_def |-> d.has_def, next |-> end + 1]
    ELSE [braced |-> FALSE, prop_name |-> Tail_(s, c), def_val |-> <<>>,
          has_def |-> FALSE, next |-> Len(s) + 1]

\* the name check left out
NameRejected_Never(prop_name) == FALSE

\* line 352: the zero-length name check
NameRejected(prop_name) == prop_name = <<>>

\* lines 358-364: the value to substitute; ok is FALSE on the error return
ResolveValue(prop_val, def_val) ==
    IF prop_val = <<>>
    THEN IF def_val = <<>> THEN [ok |-> FALSE, val |-> <<>>]
                           ELSE [ok |-> TRUE, val |-> def_val]
    ELSE [ok |-> TRUE, val |-> prop_val]

\* dst assigned instead of appended to
Append_Overwrite(out, text) == text

\* dst->append(text)
Append_(out, text) == out \o text

\* position of the next '$' at or after src_ptr, 0 if none (line 312)
NextDollar == FindChar(src, "$", src_ptr)

ExpandReturn(value) ==
    /\ epc' = "done"
    /\ ret' = value
    /\ UNCHANGED <<src, props, dst_in, ncall, prev>>
    /\ UNCHANGED <<cmdline, tokVars, fsVars, dtVars>>

\* line 309: the loop ends at the terminating NUL; line 370
ExpandAtEnd ==
    /\ epc = "loop"
    /\ src_ptr = Len(src) + 1
    /\ ExpandReturn(TRUE)
    /\ UNCHANGED <<dst, src_ptr, lookups, elog, refs>>

\* lines 312-316: no '$' left, the rest is copied
ExpandPlainTail ==
    /\ epc = "loop"
    /\ src_ptr <= Len(src)
    /\ NextDollar = 0
    /\ dst' = Append_(dst, Tail_(src, src_ptr))
    /\ ExpandReturn(TRUE)
    /\ UNCHANGED <<src_ptr, lookups, elog, refs>>

\* lines 318-324: "$$" is a literal '$'
ExpandEscapedDollar ==
    /\ epc = "loop"
    /\ src_ptr <= Len(src)
    /\ NextDollar # 0
    /\ NextDollar + 1 <= Len(src)
    /\ src[NextDollar + 1] = "$"
    /\ dst' = Append_(Append_(dst, SubSeq(src, src_ptr, NextDollar - 1)), <<"$">>)
    /\ src_ptr' = NextDollar + 2
    /\ UNCHANGED <<src, props, epc, ret, lookups, elog, refs, dst_in, ncall, prev>>
    /\ UNCHANGED <<cmdline, tokVars, fsVars, dtVars>>

\* lines 318-326: a '$' that ends the string
ExpandTrailingDollar ==
    /\ epc = "loop"
    /\ src_ptr <= Len(src)
    /\ NextDollar = Len(src)
    /\ dst' = Append_(dst, SubSeq(src, src_ptr, NextDollar - 1))
    /\ ExpandReturn(TRUE)
    /\ UNCHANGED <<src_ptr, lookups, elog, refs>>

\* the loop stands before a reference: a '$' followed by neither '$' nor the end
AtReference ==
    /\ epc = "loop"
    /\ src_ptr <= Len(src)
    /\ NextDollar # 0
    /\ NextDollar + 1 <= Len(src)
    /\ src[NextDollar + 1] # "$"

Ref == ParseReference(src, NextDollar + 1)

RefEntry(r) == [braced |-> r.braced, prop_name |-> r.prop_name,
                def_val |-> r.def_val, has_def |-> r.has_def]

\* the deprecation line of the bare form (line 348)
RefLog(r) == IF r.braced THEN elog ELSE Append(elog, "deprecated")

\* lines 333-338: no closing brace
ExpandUnterminated ==
    /\ AtReference
    /\ Ref.next = 0
    /\ dst' = Append_(dst, SubSeq(src, src_ptr, NextDollar - 1))
    /\ elog' = Append(elog, "unexpected end of string")
    /\ ExpandReturn(FALSE)
    /\ UNCHANGED <<src_ptr, lookups, refs>>

\* lines 352-355: zero-length property name
ExpandEmptyName ==
    /\ AtReference
    /\ Ref.next # 0
    /\ NameRejected(Ref.prop_name)
    /\ dst' = Append_(dst, SubSeq(src, src_ptr, NextDollar - 1))
    /\ refs' = Append(refs, RefEntry(Ref))
    /\ elog' = Append(RefLog(Ref), "invalid zero-length property name")
    /\ ExpandReturn(FALSE)
    /\ UNCHANGED <<src_ptr, lookups>>

\* lines 357-362: the property is empty and there is no default to use
ExpandUnresolved ==
    /\ AtReference
    /\ Ref.next # 0
    /\ ~NameRejected(Ref.prop_name)
    /\ ~ResolveValue(GetProperty(props, Ref.prop_name), Ref.def_val).ok
    /\ dst' = Append_(dst, SubSeq(src, src_ptr, NextDollar - 1))
    /\ refs' = Append(refs, RefEntry(Ref))
    /\ lookups' = Append(lookups, Ref.prop_name)
    /\ elog' = Append(RefLog(Ref), "property doesn't exist")
    /\ ExpandReturn(FALSE)
    /\ UNCHANGED <<src_ptr>>

\* lines 357-367: the reference is replaced and scanning goes on after it
ExpandSubstitute ==
    /\ AtReference
    /\ Ref.next # 0
    /\ ~NameRejected(Ref.prop_name)
    /\ LET v == ResolveValue(GetProperty(props, Ref.prop_name), Ref.def_val)
       IN /\ v.ok
          /\ dst' = Append_(Append_(dst, SubSeq(src, src_ptr, NextDollar - 1)), v.val)
    /\ refs' = Append(refs, RefEntry(Ref))
    /\ lookups' = Append(lookups, Ref.prop_name)
    /\ elog' = RefLog(Ref)
    /\ src_ptr' = Ref.next
    /\ UNCHANGED <<src, props, epc, ret, dst_in, ncall, prev>>
    /\ UNCHANGED <<cmdline, tokVars, fsVars, dtVars>>

\* the caller expands the same template again into the same buffer
ExpandAgain ==
    /\ epc = "done"
    /\ ncall < MaxExpandCalls
    /\ ncall' = ncall + 1
    /\ prev' = [ret |-> ret, dst |-> dst, dst_in |-> dst_in]
    /\ dst_in' = dst
    /\ src_ptr' = 1
    /\ epc' = "loop"
    /\ ret' = FALSE
    /\ lookups' = <<>>
    /\ elog' = <<>>
    /\ refs' = <<>>
    /\ UNCHANGED <<src, props, dst>>
    /\ UNCHANGED <<cmdline, tokVars, fsVars, dtVars>>

(***************************************************************************)
(* import_kernel_cmdline                                                   *)
(***************************************************************************)
\* a token taken whenever '=' splits it into two pieces or more
Accepted_AtLeastTwo(pieces) == Len(pieces) >= 2

\* line 246: a token is taken when '=' splits it into exactly two pieces
Accepted(pieces) == Len(pieces) = 2

\* lines 244-249: the calls of fn for the entries, in order
RECURSIVE EntryCalls(_)
EntryCalls(entries) ==
    IF entries = <<>> THEN <<>>
    ELSE LET pieces == Split(Head(entries), "=")
         IN (IF Accepted(pieces) THEN << <<pieces[1], pieces[2]>> >> ELSE <<>>)
            \o EntryCalls(Tail(entries))

\* lines 241-249: the calls of fn for the text read from /proc/cmdline (the text
\* is empty when the file cannot be read)
ImportKernelCmdlineCalls(text) == EntryCalls(Split(Trim(text), " "))

\* lines 239-250, with a callback that only records its arguments
import_kernel_cmdline ==
    /\ kpc = "start"
    /\ fn_calls' = ImportKernelCmdlineCalls(cmdline)
    /\ kpc' = "done"
    /\ UNCHANGED <<cmdline, expVars, fsVars, dtVars>>

(***************************************************************************)
(* The file system calls                                                   *)
(***************************************************************************)
\* lines 287-293: stat() finds a directory
is_dir(pathname) == pathname \in dirs \cup made_dirs

\* android::base::ReadFileToString: the content, empty when the file cannot be read
ReadFileToString(path) ==
    IF path = kProcCmdline THEN cmdline
    ELSE IF path \in DOMAIN sysfs THEN sysfs[path]
    ELSE <<>>

\* lines 213-226: the directories mkdir_recursive makes for path
MkdirRecursive(path) ==
    {SubSeq(path, 1, slash - 1) : slash \in {i \in 2..Len(path) : path[i] = "/"}}
        \cup {path}

\* lines 197-211: the files after WriteFile(path, content); open() fails on an
\* empty path and on a directory
WriteFile(fs, made, path, content) ==
    IF path = <<>> \/ path[Len(path)] = "/" \/ path \in made
    THEN fs
    ELSE [p \in DOMAIN fs \cup {path} |-> IF p = path THEN content ELSE fs[p]]

(***************************************************************************)
(* create_dt_file_by_cmdline                                               *)
(***************************************************************************)
\* lines 388-389: the path of the file for key under rootdir
DtFilePath(key, rootdir) ==
    Replace(rootdir \o <<"/">> \o Tail_(key, kFwPrefixSkip + 1), ".", "/")

\* lines 379-394 on the state st = [made, files, writes]
create_dt_file_by_cmdline(st, key, value, rootdir) ==
    IF key = <<>> THEN st
    ELSE IF StartsWith(key, kFwPrefix)
    THEN LET file_path    == DtFilePath(key, rootdir)
             made         == st.made \cup MkdirRecursive(Dirname(file_path))
             file_content == value \o <<"\n">>
         IN [made   |-> made,
             files  |-> WriteFile(st.files, made, file_path, file_content),
             writes |-> Append(st.writes,
                               [path |-> file_path, content |-> file_content,
                                key |-> key, value |-> value, rootdir |-> rootdir])]
    ELSE st

\* line 423 for every decoded pair, in order
RECURSIVE CreateAll(_, _, _)
CreateAll(st, calls, rootdir) ==
    IF calls = <<>> THEN st
    ELSE CreateAll(create_dt_file_by_cmdline(st, Head(calls)[1], Head(calls)[2], rootdir),
                   Tail(calls), rootdir)

(***************************************************************************)
(* import_acpi_cmdline                                                     *)
(***************************************************************************)
\* lines 400-406: the value of the first android.acpi.cfg.root entry, or the default
RECURSIVE AcpiRootIn(_)
AcpiRootIn(entries) ==
    IF entries = <<>> THEN kAcpiDefaultRoot
    ELSE LET pieces == Split(Head(entries), "=")
         IN IF Len(pieces) = 2 /\ pieces[1] = kAcpiRootKey
            THEN pieces[2]
            ELSE AcpiRootIn(Tail(entries))

\* lines 395-407
get_acpi_cfg_path_from_cmdline ==
    AcpiRootIn(Split(Trim(ReadFileToString(kProcCmdline)), " "))

\* the device name never verified
AcpiNodePresent_Always(text) == TRUE

\* lines 414-415: the ACPI device name is in the path attribute
AcpiNodePresent(text) == FindStr(text, kCfg0) # 0

\* lines 420-425: the pairs decoded from the entries of the description
RECURSIVE AcpiEntryCalls(_)
AcpiEntryCalls(entries) ==
    IF entries = <<>> THEN <<>>
    ELSE LET pieces == Split(Head(entries), "=")
         IN (IF Len(pieces) = 2 THEN << <<pieces[1], pieces[2]>> >> ELSE <<>>)
            \o AcpiEntryCalls(Tail(entries))

\* lines 408-427: what import_acpi_cmdline returns, reads and passes to fn
import_acpi_cmdline ==
    LET acpi_cfg_path == get_acpi_cfg_path_from_cmdline
        path_file     == acpi_cfg_path \o kPathAttr
        desc_file     == acpi_cfg_path \o kDescriptionAttr
    IN IF ~AcpiNodePresent(ReadFileToString(path_file))
       THEN [acpi_cfg_path |-> acpi_cfg_path, ret |-> FALSE,
             reads |-> <<kProcCmdline, path_file>>, calls |-> <<>>]
       ELSE [acpi_cfg_path |-> acpi_cfg_path, ret |-> TRUE,
             reads |-> <<kProcCmdline, path_file, desc_file>>,
             calls |-> AcpiEntryCalls(
                          Split(Trim(Replace(ReadFileToString(desc_file), "\n", " ")), " "))]

(***************************************************************************)
(* init_android_dt_dir and get_android_dt_dir                              *)
(***************************************************************************)
Threads == 1..NThreads

\* lines 436-441: android_dt_dir after the callback saw the calls
RECURSIVE DtDirAfter(_, _)
DtDirAfter(calls, dir) ==
    IF calls = <<>> THEN dir
    ELSE DtDirAfter(Tail(calls),
                    IF Head(calls)[1] = kDtDirKey THEN Head(calls)[2] ELSE dir)

\* lines 433-443: the directory chosen when the procfs one is missing
Candidate(text) ==
    LET d == DtDirAfter(ImportKernelCmdlineCalls(text), kDefaultAndroidDtDir)
    IN IF d = kDefaultAndroidDtDir THEN kAlternativeDtDir ELSE d

\* a static initialized by every thread that finds it not yet set
MustInitialize_Unguarded(g) == g # "done"

\* line 456: the first thread to reach the static initializes it
MustInitialize(g) == g = "uninit"

\* the alternative tree built whether or not it exists
SynthesisNeeded_Always(dir) == TRUE

\* line 445
SynthesisNeeded(dir) == ~is_dir(dir)

\* line 457: the call of thread t returns value
Return(t, value, how) ==
    /\ returned' = returned \cup {[thread |-> t, value |-> value, how |-> how]}
    /\ tcalls' = [tcalls EXCEPT ![t] = @ + 1]
    /\ tpc' = [tpc EXCEPT ![t] = "idle"]

\* line 456, the static not yet initialized: the caller runs init_android_dt_dir
CallFirst(t) ==
    /\ tpc[t] = "idle"
    /\ tcalls[t] < budget[t]
    /\ MustInitialize(guard)
    /\ guard' = "running"
    /\ ninit' = ninit + 1
    /\ tpc' = [tpc EXCEPT ![t] = "init"]
    /\ android_dt_dir' = [android_dt_dir EXCEPT ![t] = kDefaultAndroidDtDir]
    /\ UNCHANGED <<kAndroidDtDir, budget, tcalls, returned, reads, acpi_calls, synth_calls, writes>>
    /\ UNCHANGED <<cmdline, expVars, tokVars, fsVars>>

\* line 456, the initialization is running in another thread: the caller waits
CallBlocks(t) ==
    /\ tpc[t] = "idle"
    /\ tcalls[t] < budget[t]
    /\ guard = "running"
    /\ tpc' = [tpc EXCEPT ![t] = "blocked"]
    /\ UNCHANGED <<guard, kAndroidDtDir, android_dt_dir, budget, tcalls, returned, ninit,
                   reads, acpi_calls, synth_calls, writes>>
    /\ UNCHANGED <<cmdline, expVars, tokVars, fsVars>>

\* lines 456-457, the static is set: the caller gets it
CallCached(t) ==
    /\ tpc[t] = "idle"
    /\ tcalls[t] < budget[t]
    /\ guard = "done"
    /\ Return(t, kAndroidDtDir, "cached")
    /\ UNCHANGED <<guard, kAndroidDtDir, android_dt_dir, budget, ninit,
                   reads, acpi_calls, synth_calls, writes>>
    /\ UNCHANGED <<cmdline, expVars, tokVars, fsVars>>

\* lines 433-444: the procfs directory, else the command line, else the alternative
InitResolve(t) ==
    /\ tpc[t] = "init"
    /\ IF is_dir(kDefaultAndroidDtDir)
       THEN /\ tpc' = [tpc EXCEPT ![t] = "store"]
            /\ UNCHANGED <<android_dt_dir, reads>>
       ELSE /\ tpc' = [tpc EXCEPT ![t] = "synth"]
            /\ android_dt_dir' =
                   [android_dt_dir EXCEPT ![t] = Candidate(ReadFileToString(kProcCmdline))]
            /\ reads' = Append(reads, kProcCmdline)
    /\ UNCHANGED <<guard, kAndroidDtDir, budget, tcalls, returned, ninit,
                   acpi_calls, synth_calls, writes>>
    /\ UNCHANGED <<cmdline, expVars, tokVars, fsVars>>

\* lines 445-448: the alternative tree is built from ACPI when it is missing
InitSynthesize(t) ==
    /\ tpc[t] = "synth"
    /\ tpc' = [tpc EXCEPT ![t] = "store"]
    /\ IF SynthesisNeeded(android_dt_dir[t])
       THEN LET rootdir == android_dt_dir[t]
                r  == import_acpi_cmdline
                st == CreateAll([made |-> made_dirs, files |-> files, writes |-> writes],
                                r.calls, rootdir)
            IN /\ reads' = reads \o r.reads
               /\ acpi_calls' = Append(acpi_calls,
                                       [rootdir |-> rootdir,
                                        acpi_cfg_path |-> r.acpi_cfg_path, ret |-> r.ret])
               /\ synth_calls' = synth_calls \o
                     [i \in 1..Len(r.calls) |->
                         [key |-> r.calls[i][1], value |-> r.calls[i][2], rootdir |-> rootdir]]
               /\ made_dirs' = st.made
               /\ files' = st.files
               /\ writes' = st.writes
       ELSE UNCHANGED <<reads, acpi_calls, synth_calls, made_dirs, files, writes>>
    /\ UNCHANGED <<guard, kAndroidDtDir, android_dt_dir, budget, tcalls, returned, ninit>>
    /\ UNCHANGED <<cmdline, expVars, tokVars, dirs, sysfs>>

\* lines 450 and 456-457: the static is set and the first caller returns
InitStore(t) ==
    /\ tpc[t] = "store"
    /\ kAndroidDtDir' = android_dt_dir[t]
    /\ guard' = "done"
    /\ Return(t, android_dt_dir[t], "first")
    /\ UNCHANGED <<android_dt_dir, budget, ninit, reads, acpi_calls, synth_calls, writes>>
    /\ UNCHANGED <<cmdline, expVars, tokVars, fsVars>>

\* line 456: a waiting caller goes on once the initialization is complete
Unblock(t) ==
    /\ tpc[t] = "blocked"
    /\ guard = "done"
    /\ Return(t, kAndroidDtDir, "waited")
    /\ UNCHANGED <<guard, kAndroidDtDir, android_dt_dir, budget, ninit,
                   reads, acpi_calls, synth_calls, writes>>
    /\ UNCHANGED <<cmdline, expVars, tokVars, fsVars>>

(***************************************************************************)
(* Initial states and specifications                                       *)
(***************************************************************************)
\* the templates: every concatenation of at most MaxPieces pieces
TemplatePieces == {<<"$">>, <<"$", "{">>, <<"}">>, <<":", "-">>, <<":">>, <<"a">>}

Templates == {Concat(ps) : ps \in UNION {[1..n -> TemplatePieces] : n \in 0..MaxPieces}}

\* the property stores: "a" unset, set, or set to a value that holds a '$'
Stores == [{<<"a">>} -> {<<>>, <<"b">>, <<"$", "a">>}]

NoCall == [ret |-> FALSE, dst |-> <<>>, dst_in |-> <<>>]

\* no file but /proc/cmdline exists
NoFiles == [p \in {} |-> <<>>]

\* expand_props entered with an empty output string
ExpandStart ==
    /\ dst = <<>>
    /\ dst_in = <<>>
    /\ src_ptr = 1
    /\ epc = "loop"
    /\ ret = FALSE
    /\ lookups = <<>>
    /\ elog = <<>>
    /\ refs = <<>>
    /\ ncall = 1
    /\ prev = NoCall

\* import_kernel_cmdline not yet called
CmdlineStart ==
    /\ kpc = "start"
    /\ fn_calls = <<>>

\* the state of get_android_dt_dir and of the files init makes, before any call
DtFresh ==
    /\ made_dirs = {}
    /\ files = NoFiles
    /\ guard = "uninit"
    /\ kAndroidDtDir = Unset
    /\ tpc = [t \in Threads |-> "idle"]
    /\ android_dt_dir = [t \in Threads |-> Unset]
    /\ tcalls = [t \in Threads |-> 0]
    /\ returned = {}
    /\ ninit = 0
    /\ reads = <<>>
    /\ acpi_calls = <<>>
    /\ synth_calls = <<>>
    /\ writes = <<>>

\* the process before the first call of get_android_dt_dir
DtStart ==
    /\ budget = [t \in Threads |-> 0]
    /\ DtFresh

InitExpand ==
    /\ src \in Templates
    /\ props \in Stores
    /\ ExpandStart
    /\ cmdline = <<>>
    /\ CmdlineStart
    /\ dirs = {}
    /\ sysfs = NoFiles
    /\ DtStart

NextExpand ==
    \/ ExpandAtEnd
    \/ ExpandPlainTail
    \/ ExpandEscapedDollar
    \/ ExpandTrailingDollar
    \/ ExpandUnterminated
    \/ ExpandEmptyName
    \/ ExpandUnresolved
    \/ ExpandSubstitute
    \/ ExpandAgain

SpecExpand == InitExpand /\ [][NextExpand]_vars

\* the command line texts the tokenizer is run on: every text of at most MaxCmdLen
\* characters of CmdlineChars, and the text "a=1 b=2=3 c=4"
CmdlineChars == {" ", "=", "a", "b", "\n"}

CmdlineExample ==
    <<"a", "=", "1", " ", "b", "=", "2", "=", "3", " ", "c", "=", "4">>

CmdlineTexts ==
    UNION {[1..n -> CmdlineChars] : n \in 0..MaxCmdLen} \cup {CmdlineExample}

InitCmdline ==
    /\ cmdline \in CmdlineTexts
    /\ CmdlineStart
    /\ src = <<>>
    /\ props = NoFiles
    /\ ExpandStart
    /\ dirs = {}
    /\ sysfs = NoFiles
    /\ DtStart

NextCmdline == import_kernel_cmdline

SpecCmdline == InitCmdline /\ [][NextCmdline]_vars

\* the command lines of the boots modelled: at most two entries of DtCmdEntries
DtOverride   == <<"/", "d", "t", ".", "1">>
DtOverride2  == <<"/", "o", "d", "m">>
AcpiOverride == <<"/", "a", "c", "p", "i">>

DtCmdEntries ==
    {kDtDirKey \o <<"=">> \o DtOverride,
     kDtDirKey \o <<"=">> \o DtOverride2,
     kDtDirKey \o <<"=">> \o kDefaultAndroidDtDir,
     kDtDirKey \o <<"=">>,
     kDtDirKey \o <<"=", "/", "a", "=", "b">>,
     kAcpiRootKey \o <<"=">> \o AcpiOverride,
     <<"q", "u", "i", "e", "t">>}

DtCmdlines ==
    {<<>>} \cup {e \o <<"\n">> : e \in DtCmdEntries}
           \cup {e \o <<" ">> \o f \o <<"\n">> : e \in DtCmdEntries, f \in DtCmdEntries}

\* the directories that exist when init starts
DtDirSets ==
    {{}, {kDefaultAndroidDtDir}, {kAlternativeDtDir}, {DtOverride},
     {kAlternativeDtDir, DtOverride, DtOverride2}}

\* the ACPI node's path attribute: with and without the device name
PathAttrCfg0  == <<"\\", "_", "S", "B", "_", ".", "C", "F", "G", "0", "\n">>
PathAttrOther == <<"\\", "_", "S", "B", "_", ".", "C", "F", "G", "O", "\n">>
PathAttrs     == {PathAttrCfg0, PathAttrOther}

\* "android.fw.display.panel=oled\nandroid.fw.rev=1.5\n"
DescFirmware ==
    kFwPrefix \o <<"d", "i", "s", "p", "l", "a", "y", ".", "p", "a", "n", "e", "l",
                   "=", "o", "l", "e", "d", "\n">>
    \o kFwPrefix \o <<"r", "e", "v", "=", "1", ".", "5", "\n">>

\* "ro.k=v android.fw.b=2=3\n=x android.fwx=1\n"
DescOther ==
    <<"r", "o", ".", "k", "=", "v", " ">>
    \o kFwPrefix \o <<"b", "=", "2", "=", "3", "\n", "=", "x", " ">>
    \o <<"a", "n", "d", "r", "o", "i", "d", ".", "f", "w", "x", "=", "1", "\n">>

DescAttrs == {DescFirmware, DescOther, <<>>}

\* an ACPI node at root, its description attribute readable or not
AcpiNode(root, path, desc, readable) ==
    [f \in {root \o kPathAttr} \cup (IF readable THEN {root \o kDescriptionAttr} ELSE {})
        |-> IF f = root \o kPathAttr THEN path ELSE desc]

SysfsStates ==
    {NoFiles}
    \cup {AcpiNode(root, path, desc, TRUE) :
             root \in {kAcpiDefaultRoot, AcpiOverride}, path \in PathAttrs, desc \in DescAttrs}
    \cup {AcpiNode(root, path, <<>>, FALSE) :
             root \in {kAcpiDefaultRoot, AcpiOverride}, path \in PathAttrs}

\* boots in which every thread calls get_android_dt_dir MaxDtCalls times
InitDt ==
    /\ cmdline \in {<<>>, kDtDirKey \o <<"=">> \o DtOverride \o <<"\n">>}
    /\ dirs \in DtDirSets
    /\ sysfs \in {NoFiles,
                  AcpiNode(kAcpiDefaultRoot, PathAttrCfg0, DescFirmware, TRUE),
                  AcpiNode(kAcpiDefaultRoot, PathAttrOther, DescFirmware, TRUE)}
    /\ budget = [t \in Threads |-> MaxDtCalls]
    /\ DtFresh
    /\ CmdlineStart
    /\ src = <<>>
    /\ props = NoFiles
    /\ ExpandStart

NextDt ==
    \E t \in Threads :
        \/ CallFirst(t)
        \/ CallBlocks(t)
        \/ CallCached(t)
        \/ InitResolve(t)
        \/ InitSynthesize(t)
        \/ InitStore(t)
        \/ Unblock(t)

SpecDt == InitDt /\ [][NextDt]_vars

\* boots in which one thread calls get_android_dt_dir, under every command line,
\* directory set and ACPI node modelled
InitBoot ==
    /\ cmdline \in DtCmdlines
    /\ dirs \in DtDirSets
    /\ sysfs \in SysfsStates
    /\ budget = [t \in Threads |-> IF t = 1 THEN MaxDtCalls ELSE 0]
    /\ DtFresh
    /\ CmdlineStart
    /\ src = <<>>
    /\ props = NoFiles
    /\ ExpandStart

NextBoot ==
    \E t \in Threads :
        \/ CallFirst(t)
        \/ CallCached(t)
        \/ InitResolve(t)
        \/ InitSynthesize(t)
        \/ InitStore(t)

SpecBoot == InitBoot /\ [][NextBoot]_vars


(***************************************************************************)
(* Properties of expand_props                                              *)
(***************************************************************************)
Finished == epc = "done"
LastLog == IF elog = <<>> THEN "none" ELSE elog[Len(elog)]
HasDollar(s) == FindChar(s, "$", 1) # 0

\* what a reference stands for: the property's value, or the default when the
\* property is empty
Resolved(store, key, def) ==
    IF GetProperty(store, key) # <<>> THEN GetProperty(store, key) ELSE def

\* the expansion of template t as one pass from left to right: text before a '$'
\* is kept, "$$" gives '$', a last '$' gives nothing, ${body} gives its resolved
\* value and the pass goes on behind the '}', $name takes the rest as the name
RECURSIVE Expansion(_, _)
Expansion(t, store) ==
    LET d == FindChar(t, "$", 1)
    IN IF d = 0 THEN t
       ELSE SubSeq(t, 1, d - 1) \o
            (IF d = Len(t) THEN <<>>
             ELSE IF t[d + 1] = "$" THEN <<"$">> \o Expansion(Tail_(t, d + 2), store)
             ELSE IF t[d + 1] = "{"
                  THEN LET close == FindChar(t, "}", d + 2)
                           body  == SubSeq(t, d + 2, close - 1)
                           sep   == FindStr(body, <<":", "-">>)
                           key   == IF sep = 0 THEN body ELSE SubSeq(body, 1, sep - 1)
                           def   == IF sep = 0 THEN <<>> ELSE Tail_(body, sep + 2)
                       IN IF close = 0 THEN <<>>
                          ELSE Resolved(store, key, def)
                               \o Expansion(Tail_(t, close + 1), store)
             ELSE Resolved(store, Tail_(t, d + 1), <<>>))

\* C8: whenever expand_props succeeds, what it appended to dst is the one-pass
\* left-to-right expansion of the template (a template with no '$' comes out
\* unchanged), and a '$' inside a substituted value is not expanded again.
C8_SinglePassExpansion ==
    /\ (Finished /\ ret) => dst = dst_in \o Expansion(src, props)
    /\ (Finished /\ ~HasDollar(src)) => (ret /\ dst = dst_in \o src)

\* a successful call that replaced a braced reference by a value holding a '$'
\* and copied literal text behind it
C8_Witness ==
    /\ Finished /\ ret /\ ncall = 1
    /\ refs # <<>> /\ refs[1].braced
    /\ HasDollar(GetProperty(props, refs[1].prop_name))
    /\ src[Len(src)] = "a"
    /\ Len(dst) = 3

\* C9: GetProperty is never called with an empty name; a reference whose key is
\* empty ("${}", "${:-default}") ends the call with the zero-length-name error
\* before any lookup for it, wherever it stands in the template.
C9_NoEmptyNameLookup ==
    /\ \A i \in 1..Len(lookups) : lookups[i] # <<>>
    /\ \A i \in 1..Len(refs) :
          refs[i].prop_name = <<>> =>
             /\ Finished /\ ~ret
             /\ i = Len(refs)
             /\ Len(lookups) = Len(refs) - 1
             /\ LastLog = "invalid zero-length property name"

\* "${:-a}" behind literal text: rejected without a lookup
C9_Witness ==
    /\ Finished /\ ~ret
    /\ refs # <<>>
    /\ refs[Len(refs)].prop_name = <<>>
    /\ refs[Len(refs)].has_def /\ refs[Len(refs)].def_val # <<>>
    /\ dst # <<>>

\* C4 as stated: a braced reference with ":-" whose property is empty never fails
\* as unresolved, also when the default is empty; only a reference without ":-"
\* does.
C4_DefaultAlwaysSubstituted ==
    (/\ Finished /\ ~ret
     /\ LastLog = "property doesn't exist"
     /\ refs[Len(refs)].braced)
    => ~refs[Len(refs)].has_def

\* C10 as stated: a second call with the same template and store ends with the
\* same flag and the same contents of dst, whatever dst held before.
C10_ResultIgnoresPriorDst ==
    (Finished /\ ncall > 1) => (ret = prev.ret /\ dst = prev.dst)

\* C10 amended: the flag and the text appended to dst depend on the template and
\* the store only; dst ends as what it held before the call followed by that text.
C10_AppendedTextIsDetermined ==
    (Finished /\ ncall > 1) =>
        /\ ret = prev.ret
        /\ dst = dst_in \o Tail_(prev.dst, Len(prev.dst_in) + 1)
        /\ SubSeq(prev.dst, 1, Len(prev.dst_in)) = prev.dst_in

\* a second, successful call on a buffer that was not empty
C10_Witness ==
    /\ Finished /\ ncall = 2 /\ ret
    /\ dst_in # <<>>
    /\ refs # <<>>

(***************************************************************************)
(* Properties of import_kernel_cmdline                                     *)
(***************************************************************************)
\* the places that bound the tokens of s: before it, its spaces, behind it
Cuts(s) == {0} \cup {i \in 1..Len(s) : s[i] = " "} \cup {Len(s) + 1}

\* the token of s that starts behind cut b
TokenAt(s, b) ==
    SubSeq(s, b + 1, (CHOOSE c \in Cuts(s) : c > b /\ \A d \in Cuts(s) : d > b => c <= d) - 1)

EqualSigns(tok) == {i \in 1..Len(tok) : tok[i] = "="}

\* the cuts of s behind which a token with exactly one '=' starts
WellFormedStarts(s) ==
    {b \in Cuts(s) \ {Len(s) + 1} : Cardinality(EqualSigns(TokenAt(s, b))) = 1}

\* (key, value) of the well-formed tokens of s that start at the cuts in bs, in
\* the order of the text
RECURSIVE PairsFrom(_, _)
PairsFrom(s, bs) ==
    IF bs = {} THEN <<>>
    ELSE LET b   == CHOOSE x \in bs : \A y \in bs : x <= y
             tok == TokenAt(s, b)
             eq  == CHOOSE i \in EqualSigns(tok) : TRUE
         IN << <<SubSeq(tok, 1, eq - 1), Tail_(tok, eq + 1)>> >>
            \o PairsFrom(s, bs \ {b})

\* C5: import_kernel_cmdline calls fn exactly once for every space-separated token
\* of the trimmed text that holds exactly one '=', in the order of the text, with
\* the parts before and behind the '=' as key and value; every other token is
\* dropped, and repeated keys are not merged.
C5_CallbackPerWellFormedToken ==
    kpc = "done" =>
        fn_calls = PairsFrom(Trim(cmdline), WellFormedStarts(Trim(cmdline)))

\* "a=1 b=2=3 c=4" gave (a,1) and (c,4)
C5_Witness ==
    /\ kpc = "done"
    /\ cmdline = CmdlineExample
    /\ fn_calls = << <<<<"a">>, <<"1">>>>, <<<<"c">>, <<"4">>>> >>

(***************************************************************************)
(* Properties of get_android_dt_dir                                        *)
(***************************************************************************)
Initializing == {t \in Threads : tpc[t] \in {"init", "synth", "store"}}

\* C1: init_android_dt_dir runs exactly once in the process however many threads
\* call get_android_dt_dir concurrently or later: no second run starts, a caller
\* that arrives during the run waits until it is complete, and every call returns
\* the same cached path.
C1_InitializedExactlyOnce ==
    /\ ninit <= 1
    /\ Cardinality(Initializing) <= 1
    /\ (guard = "running") <=> (Initializing # {})
    /\ \A t \in Threads : tpc[t] = "blocked" => guard # "uninit"
    /\ \A r \in returned : /\ guard = "done"
                           /\ ninit = 1
                           /\ r.value = kAndroidDtDir
                           /\ r.value # Unset
    /\ guard = "done" => ninit = 1

\* one call ran the initialization, one waited for it and a later one found it done
C1_Witness ==
    /\ \E r \in returned : r.how = "first"
    /\ \E r \in returned : r.how = "waited"
    /\ \E r \in returned : r.how = "cached"

\* C3: import_acpi_cmdline is called if and only if neither the procfs directory
\* nor the chosen directory exists, at most once in the process and with the chosen
\* directory as its root; when the procfs directory exists nothing is read,
\* scanned or created.
C3_SynthesisOnlyWhenNoTree ==
    /\ Len(acpi_calls) <= 1
    /\ \A t \in Threads : tpc[t] = "store" =>
          /\ (acpi_calls # <<>>) <=>
                (kDefaultAndroidDtDir \notin dirs /\ android_dt_dir[t] \notin dirs)
          /\ acpi_calls # <<>> => acpi_calls[1].rootdir = android_dt_dir[t]
    /\ guard = "done" =>
          /\ (acpi_calls # <<>>) <=>
                (kDefaultAndroidDtDir \notin dirs /\ kAndroidDtDir \notin dirs)
          /\ acpi_calls # <<>> => acpi_calls[1].rootdir = kAndroidDtDir
    /\ acpi_calls = <<>> => (synth_calls = <<>> /\ writes = <<>> /\ files = NoFiles)
    /\ kDefaultAndroidDtDir \in dirs =>
          /\ reads = <<>>
          /\ acpi_calls = <<>>
          /\ made_dirs = {}

\* the tree was synthesized once, and calls went on after it
C3_Witness ==
    /\ guard = "done"
    /\ Len(acpi_calls) = 1
    /\ acpi_calls[1].ret
    /\ files # NoFiles
    /\ kAndroidDtDir = DtOverride
    /\ \E r \in returned : r.how = "cached"

\* the text holds "CFG0" somewhere
HoldsCfg0(text) ==
    \E i \in 1..Len(text) : i + 3 <= Len(text) /\ SubSeq(text, i, i + 3) = kCfg0

\* C7: when the text read from the node's path attribute does not hold "CFG0"
\* (the attribute may be unreadable), import_acpi_cmdline returns false, does
\* not read the description attribute, calls the callback not once and no file
\* is created, whatever the description holds.
C7_AbsentNodeNoSynthesis ==
    \A i \in 1..Len(acpi_calls) :
        ~HoldsCfg0(ReadFileToString(acpi_calls[i].acpi_cfg_path \o kPathAttr)) =>
            /\ ~acpi_calls[i].ret
            /\ \A j \in 1..Len(reads) :
                  reads[j] # acpi_calls[i].acpi_cfg_path \o kDescriptionAttr
            /\ synth_calls = <<>>
            /\ writes = <<>>
            /\ files = NoFiles
            /\ made_dirs = {}

\* the importer failed on a node whose description holds android.fw. entries
C7_Witness ==
    /\ Len(acpi_calls) = 1
    /\ ~acpi_calls[1].ret
    /\ acpi_calls[1].acpi_cfg_path = AcpiOverride
    /\ (AcpiOverride \o kPathAttr) \in DOMAIN sysfs
    /\ (AcpiOverride \o kDescriptionAttr) \in DOMAIN sysfs
    /\ sysfs[AcpiOverride \o kDescriptionAttr] = DescFirmware

IsDtDirCall(call) == call[1] = kDtDirKey

\* the values of the accepted androidboot.android_dt_dir tokens, in order
DtDirOverrides == SelectSeq(ImportKernelCmdlineCalls(cmdline), IsDtDirCall)

\* C2 as stated: the path is the procfs directory when it exists, else the value
\* of the last accepted androidboot.android_dt_dir token whatever it is, else the
\* alternative default.
C2_ReturnedPathAsStated ==
    guard = "done" =>
        kAndroidDtDir =
            IF kDefaultAndroidDtDir \in dirs THEN kDefaultAndroidDtDir
            ELSE IF DtDirOverrides # <<>> THEN DtDirOverrides[Len(DtDirOverrides)][2]
            ELSE kAlternativeDtDir

\* C6 as stated: a file is written exactly for the keys that start with
\* "android.fw.", at the unchanged root followed by '/' and the rest of the key
\* with its dots turned into slashes, holding the value and a newline.
C6_FileUnderUnchangedRoot ==
    /\ \A i \in 1..Len(writes) :
          /\ StartsWith(writes[i].key, kFwPrefix)
          /\ writes[i].path =
                writes[i].rootdir \o <<"/">>
                \o Replace(Tail_(writes[i].key, Len(kFwPrefix) + 1), ".", "/")
          /\ writes[i].content = writes[i].value \o <<"\n">>
    /\ Len(writes) =
          Cardinality({i \in 1..Len(synth_calls) : StartsWith(synth_calls[i].key, kFwPrefix)})
====
